---- MODULE Spec2Model ----
(***************************************************************************)
(* Model of the booking core of aden-car-wash: the availability scheduler  *)
(* (server/src/handlers/time_slots.ts), the zone resolver                  *)
(* (server/src/handlers/get_zones.ts), the pricing engine                  *)
(* (server/src/handlers/calculate_price.ts) and the booking writers        *)
(* createBooking / updateBooking.                                          *)
(*                                                                         *)
(* Instants are whole minutes since local midnight of day 0 (a Date at     *)
(* minute granularity); coordinates are whole kilometres on a local grid.  *)
(***************************************************************************)
EXTENDS Integers, Sequences, FiniteSets, TLC

VARIABLES zones, pricing_rules, bookings, customers, callers, last

vars == <<zones, pricing_rules, bookings, customers, callers, last>>

---------------------------------------------------------------------------
(* Bounds of the model *)

\* rows the bookings table may hold in the store specifications
MaxBookings == 3
\* bookings beyond the team capacity that the two racing callers may write
RaceExtra == 1
\* rows of the zones table in the zone-resolver specification
MaxZones == 2

---------------------------------------------------------------------------
(* Program constants: time_slots.ts:18-23 *)

DEFAULT_OPERATING_HOURS == [start |-> <<8, 0>>, end |-> <<18, 0>>]
DEFAULT_TEAM_CAPACITY == 3
SLOT_WINDOW_MINUTES == 90
BUFFER_MINUTES == 30
SLOT_INTERVAL_MINUTES == 60

\* get_zones.ts:65, the radius used when geoData.radius is falsy
DEFAULT_RADIUS_KM == 10

MinutesPerDay == 1440

\* the booking status enum (schema: z.enum([...]))
Statuses == {"confirmed", "on_the_way", "started", "finished", "postponed", "canceled"}

\* a Date built from day, hour, minute
At(day, h, m) == day * MinutesPerDay + h * 60 + m

---------------------------------------------------------------------------
(* Date helpers *)

\* Date.setHours(h, m, 0, 0): same local day, given time of day
setHours(date, h, m) == (date \div MinutesPerDay) * MinutesPerDay + h * 60 + m

\* Date.getHours() * 60 + Date.getMinutes()
minutesOfDay(date) == date % MinutesPerDay

---------------------------------------------------------------------------
(* time_slots.ts *)

isTimeOverlap(start1, end1, start2, end2) == start1 < end2 /\ start2 < end1

getZoneSchedule_AllStatuses(bk, zone_id, date) ==
  LET dayStart == setHours(date, 0, 0)
      dayEnd == setHours(date, 23, 59)
      rows == SelectSeq(bk, LAMBDA b : /\ b.zone_id = zone_id
                                    /\ dayStart <= b.scheduled_window_start
                                    /\ b.scheduled_window_start <= dayEnd)
  IN [operating_hours |-> DEFAULT_OPERATING_HOURS,
      booked_slots |-> [i \in 1..Len(rows) |->
                          [start |-> rows[i].scheduled_window_start,
                           end |-> rows[i].scheduled_window_end,
                           available |-> FALSE,
                           zone_id |-> rows[i].zone_id]],
      team_capacity |-> DEFAULT_TEAM_CAPACITY]

\* dayEnd is 23:59:59.999; at minute granularity the last instant of the day
getZoneSchedule(bk, zone_id, date) ==
  LET dayStart == setHours(date, 0, 0)
      dayEnd == setHours(date, 23, 59)
      rows == SelectSeq(bk, LAMBDA b : /\ b.zone_id = zone_id
                                    /\ dayStart <= b.scheduled_window_start
                                    /\ b.scheduled_window_start <= dayEnd
                                    /\ b.status = "confirmed")
  IN [operating_hours |-> DEFAULT_OPERATING_HOURS,
      booked_slots |-> [i \in 1..Len(rows) |->
                          [start |-> rows[i].scheduled_window_start,
                           end |-> rows[i].scheduled_window_end,
                           available |-> FALSE,
                           zone_id |-> rows[i].zone_id]],
      team_capacity |-> DEFAULT_TEAM_CAPACITY]

\* the while loop of generateTimeSlots, from currentSlot on
RECURSIVE generateFrom(_, _, _)
generateFrom(currentSlot, dayEnd, step) ==
  IF currentSlot + SLOT_WINDOW_MINUTES <= dayEnd
  THEN <<[start |-> currentSlot, end |-> currentSlot + SLOT_WINDOW_MINUTES]>>
         \o generateFrom(currentSlot + step, dayEnd, step)
  ELSE <<>>

generateTimeSlots_StepByWindow(date, operating_hours) ==
  generateFrom(setHours(date, operating_hours.start[1], operating_hours.start[2]),
               setHours(date, operating_hours.end[1], operating_hours.end[2]),
               SLOT_WINDOW_MINUTES)

generateTimeSlots(date, operating_hours) ==
  generateFrom(setHours(date, operating_hours.start[1], operating_hours.start[2]),
               setHours(date, operating_hours.end[1], operating_hours.end[2]),
               SLOT_INTERVAL_MINUTES)

isSlotAvailable_NoDurationCheck(zone_id, start, end, service_duration, booked_slots, team_capacity) ==
  LET overlapping == SelectSeq(booked_slots, LAMBDA s : isTimeOverlap(start, end, s.start, s.end))
  IN ~(Len(overlapping) >= team_capacity)

\* the capacity test refusing a slot only when it is exactly full
isSlotAvailable_UnlessExactlyFull(zone_id, start, end, service_duration, booked_slots, team_capacity) ==
  LET overlapping == SelectSeq(booked_slots, LAMBDA s : isTimeOverlap(start, end, s.start, s.end))
      slotDuration == end - start
  IN IF Len(overlapping) = team_capacity THEN FALSE
     ELSE IF service_duration + BUFFER_MINUTES > slotDuration THEN FALSE
     ELSE TRUE

isSlotAvailable(zone_id, start, end, service_duration, booked_slots, team_capacity) ==
  LET overlapping == SelectSeq(booked_slots, LAMBDA s : isTimeOverlap(start, end, s.start, s.end))
      slotDuration == end - start
  IN IF Len(overlapping) >= team_capacity THEN FALSE
     ELSE IF service_duration + BUFFER_MINUTES > slotDuration THEN FALSE
     ELSE TRUE

getConflictingBookings_AnyZone(bk, zone_id, start_time, end_time) ==
  SelectSeq(bk, LAMBDA b : /\ b.scheduled_window_start <= end_time
                           /\ b.scheduled_window_end >= start_time
                           /\ b.status = "confirmed")

getConflictingBookings(bk, zone_id, start_time, end_time) ==
  SelectSeq(bk, LAMBDA b : /\ b.zone_id = zone_id
                        /\ b.scheduled_window_start <= end_time
                        /\ b.scheduled_window_end >= start_time
                        /\ b.status = "confirmed")

isWithinOperatingHours(start_time, end_time, operating_hours) ==
  LET opStartMinutes == operating_hours.start[1] * 60 + operating_hours.start[2]
      opEndMinutes == operating_hours.end[1] * 60 + operating_hours.end[2]
      slotStartMinutes == minutesOfDay(start_time)
      slotEndMinutes == minutesOfDay(end_time)
  IN slotStartMinutes >= opStartMinutes /\ slotEndMinutes <= opEndMinutes

zoneExists_AnyRow(zs, zone_id) == Len(zs) > 0

zoneExists(zs, zone_id) == \E i \in 1..Len(zs) : zs[i].id = zone_id

\* result of getAvailableTimeSlots: the thrown error, or the slots
getAvailableTimeSlots(zs, bk, zone_id, service_duration, date) ==
  IF ~zoneExists(zs, zone_id)
  THEN [error |-> "Zone with ID not found", slots |-> <<>>]
  ELSE LET schedule == getZoneSchedule(bk, zone_id, date)
           allSlots == generateTimeSlots(date, schedule.operating_hours)
       IN [error |-> "none",
           slots |-> [i \in 1..Len(allSlots) |->
                        [start |-> allSlots[i].start,
                         end |-> allSlots[i].end,
                         available |-> isSlotAvailable(zone_id, allSlots[i].start, allSlots[i].end,
                                                       service_duration, schedule.booked_slots,
                                                       schedule.team_capacity),
                         zone_id |-> zone_id]]]

\* the capacity test letting a slot that is exactly full through
validateTimeSlot_FullSlotPasses(zs, bk, zone_id, start_time, end_time) ==
  IF ~zoneExists(zs, zone_id) THEN FALSE
  ELSE LET schedule == getZoneSchedule(bk, zone_id, start_time)
       IN IF ~isWithinOperatingHours(start_time, end_time, schedule.operating_hours) THEN FALSE
          ELSE Len(getConflictingBookings(bk, zone_id, start_time, end_time))
                 <= schedule.team_capacity

validateTimeSlot(zs, bk, zone_id, start_time, end_time) ==
  IF ~zoneExists(zs, zone_id) THEN FALSE
  ELSE LET schedule == getZoneSchedule(bk, zone_id, start_time)
       IN IF ~isWithinOperatingHours(start_time, end_time, schedule.operating_hours) THEN FALSE
          ELSE IF Len(getConflictingBookings(bk, zone_id, start_time, end_time)) >= schedule.team_capacity
               THEN FALSE
               ELSE TRUE

---------------------------------------------------------------------------
(* get_zones.ts *)

(* The polygon_or_center column holds text.  The model keeps what JSON.parse
   makes of it: valid = FALSE when the parse throws, otherwise value is the
   parsed object, a record whose domain is the set of keys present. *)

\* the result of arithmetic on undefined
NaN == -1

\* geoData.lat, geoData.lng, ... as a number: NaN when the key is absent
numberAt(geoData, key) == IF key \in DOMAIN geoData THEN geoData[key] ELSE NaN

\* geoData.type
typeAt(geoData) == IF "type" \in DOMAIN geoData THEN geoData.type ELSE "undefined"

\* the least k with k * k >= n
RECURSIVE ceilSqrtFrom(_, _)
ceilSqrtFrom(k, n) == IF k * k >= n THEN k ELSE ceilSqrtFrom(k + 1, n)

(* Haversine distance in km.  On the kilometre grid of the model it is the
   planar distance, rounded up to a whole kilometre, so that comparing it
   with a whole number of kilometres is exact; NaN when a coordinate is. *)
calculateDistance(lat1, lng1, lat2, lng2) ==
  IF lat1 = NaN \/ lng1 = NaN \/ lat2 = NaN \/ lng2 = NaN THEN NaN
  ELSE ceilSqrtFrom(0, (lat2 - lat1) * (lat2 - lat1) + (lng2 - lng1) * (lng2 - lng1))

\* one edge test of the ray casting loop, vertices i and j
edgeCrossed(lat, lng, pi, pj) ==
  /\ (pi.lat > lat) # (pj.lat > lat)
  /\ LET d == pj.lat - pi.lat
         n == (pj.lng - pi.lng) * (lat - pi.lat)
     IN IF d > 0 THEN (lng - pi.lng) * d < n ELSE (lng - pi.lng) * d > n

\* the loop of isPointInPolygon from index i on (j is the previous vertex)
RECURSIVE rayCastFrom(_, _, _, _, _, _)
rayCastFrom(i, j, inside, lat, lng, polygon) ==
  IF i > Len(polygon) THEN inside
  ELSE rayCastFrom(i + 1, i,
                   IF edgeCrossed(lat, lng, polygon[i], polygon[j]) THEN ~inside ELSE inside,
                   lat, lng, polygon)

\* the loop without its first iteration, the edge that closes the polygon
isPointInPolygon_OpenChain(lat, lng, polygon) ==
  IF Len(polygon) = 0 THEN FALSE
  ELSE rayCastFrom(2, 1, FALSE, lat, lng, polygon)

isPointInPolygon(lat, lng, polygon) ==
  IF Len(polygon) = 0 THEN FALSE
  ELSE rayCastFrom(1, Len(polygon), FALSE, lat, lng, polygon)

isLocationInZone_NoTypeCheck(lat, lng, polygonOrCenter) ==
  IF ~polygonOrCenter.valid THEN FALSE
  ELSE LET geoData == polygonOrCenter.value
       IN IF typeAt(geoData) = "polygon" /\ "coordinates" \in DOMAIN geoData
          THEN isPointInPolygon(lat, lng, geoData.coordinates)
          ELSE LET distance == calculateDistance(lat, lng, numberAt(geoData, "lat"),
                                                 numberAt(geoData, "lng"))
                   radiusKm == IF numberAt(geoData, "radius") \in {NaN, 0}
                               THEN DEFAULT_RADIUS_KM
                               ELSE geoData.radius
               IN distance # NaN /\ distance <= radiusKm

\* a comparison with NaN is false; geoData.radius || 10 takes 10 for a
\* missing radius and for radius 0
isLocationInZone(lat, lng, polygonOrCenter) ==
  IF ~polygonOrCenter.valid THEN FALSE
  ELSE LET geoData == polygonOrCenter.value
       IN IF typeAt(geoData) = "center"
          THEN LET distance == calculateDistance(lat, lng, numberAt(geoData, "lat"),
                                                 numberAt(geoData, "lng"))
                   radiusKm == IF numberAt(geoData, "radius") \in {NaN, 0}
                               THEN DEFAULT_RADIUS_KM
                               ELSE geoData.radius
               IN distance # NaN /\ distance <= radiusKm
          ELSE IF typeAt(geoData) = "polygon" /\ "coordinates" \in DOMAIN geoData
          THEN isPointInPolygon(lat, lng, geoData.coordinates)
          ELSE FALSE

\* the id a lookup returns when no zone matches (null)
NoZone == 0

\* the for loop of getZoneByLocation from row i on
RECURSIVE firstZoneFrom(_, _, _, _)
firstZoneFrom(i, zs, lat, lng) ==
  IF i > Len(zs) THEN NoZone
  ELSE IF isLocationInZone(lat, lng, zs[i].polygon_or_center) THEN zs[i].id
  ELSE firstZoneFrom(i + 1, zs, lat, lng)

\* the same loop keeping the last match
RECURSIVE lastZoneFrom(_, _, _, _)
lastZoneFrom(i, zs, lat, lng) ==
  IF i < 1 THEN NoZone
  ELSE IF isLocationInZone(lat, lng, zs[i].polygon_or_center) THEN zs[i].id
  ELSE lastZoneFrom(i - 1, zs, lat, lng)

getZoneByLocation_LastMatch(zs, lat, lng) == lastZoneFrom(Len(zs), zs, lat, lng)

getZoneByLocation(zs, lat, lng) == firstZoneFrom(1, zs, lat, lng)

---------------------------------------------------------------------------
(* Configuration tables read by createBooking (rows as the tests seed them) *)

\* services: numeric columns parsed with parseFloat
servicesTable == <<[id |-> 1, base_price_team |-> 150, base_price_solo |-> 100, est_minutes |-> 60]>>

addonsTable == <<[id |-> 1, price |-> 25, est_minutes |-> 15],
                 [id |-> 2, price |-> 35, est_minutes |-> 20]>>

RECURSIVE sumPrices(_)
sumPrices(rows) == IF rows = <<>> THEN 0 ELSE Head(rows).price + sumPrices(Tail(rows))

\* db.select().from(addonsTable).where(inArray(addonsTable.id, ids))
addonsIn(ids) == SelectSeq(addonsTable, LAMBDA a : \E k \in 1..Len(ids) : ids[k] = a.id)

---------------------------------------------------------------------------
(* calculate_price.ts *)

(* The amounts calculatePrice computes are JS numbers with at most one
   decimal in every case of the model (25 * 1.5 = 37.5, 7 * 2.5 = 17.5); they
   are held as whole tenths of the currency unit.  In a rule's payload
   fee_per_km, max_fee and the multipliers are tenths as well, distances are
   whole kilometres. *)
Tenths == 10

\* parseFloat of a numeric column that holds a whole amount
parseFloat(amount) == amount * Tenths

\* x || d: d when x is undefined (NaN here) or 0
orDefault(x, d) == IF x \in {NaN, 0} THEN d ELSE x

\* the free radius and the fee per km used when the rule gives none
DEFAULT_FREE_RADIUS_KM == 5
DEFAULT_FEE_PER_KM == 5 * Tenths

\* select from pricingRulesTable where key = ... (no test of enabled)
enabledRules_IgnoreFlag(rules, key) == SelectSeq(rules, LAMBDA r : r.key = key)

\* select from pricingRulesTable where key = ... and enabled = true
enabledRules(rules, key) == SelectSeq(rules, LAMBDA r : r.key = key /\ r.enabled)

\* the helper at the end of calculate_price.ts, the same formula as in get_zones.ts
calculateDistanceKm(lat1, lng1, lat2, lng2) == calculateDistance(lat1, lng1, lat2, lng2)

\* step 1: the rows of servicesTable with the id
serviceResults(service_id) == SelectSeq(servicesTable, LAMBDA sv : sv.id = service_id)

\* one row for each requested id that exists, a repeated id repeated
RECURSIVE addonResults_PerRequestedId(_)
addonResults_PerRequestedId(ids) ==
  IF ids = <<>> THEN <<>>
  ELSE SelectSeq(addonsTable, LAMBDA a : a.id = Head(ids)) \o addonResults_PerRequestedId(Tail(ids))

\* step 2: select from addonsTable where inArray(id, input.addons)
addonResults(ids) ==
  IF Len(ids) > 0
  THEN SelectSeq(addonsTable, LAMBDA a : \E k \in 1..Len(ids) : ids[k] = a.id)
  ELSE <<>>

\* the reduce of step 2: the sum of parseFloat(addon.price)
RECURSIVE addonsPriceSum(_)
addonsPriceSum(rows) ==
  IF rows = <<>> THEN 0 ELSE parseFloat(Head(rows).price) + addonsPriceSum(Tail(rows))

\* the reduce of step 2: what it adds to estimated_duration
RECURSIVE addonsMinutesSum(_)
addonsMinutesSum(rows) ==
  IF rows = <<>> THEN 0 ELSE Head(rows).est_minutes + addonsMinutesSum(Tail(rows))

\* the error also raised for a requested addon that does not exist
calculatePriceError_AddonsChecked(zs, input) ==
  IF Len(serviceResults(input.service_id)) = 0 THEN "Service with ID not found"
  ELSE IF Len(addonResults(input.addons)) # Len(input.addons) THEN "One or more addons not found"
  ELSE IF ~zoneExists(zs, input.zone_id) THEN "Zone with ID not found"
  ELSE "none"

\* the zone looked up before the service
calculatePriceError_ZoneFirst(zs, input) ==
  IF ~zoneExists(zs, input.zone_id) THEN "Zone with ID not found"
  ELSE IF Len(serviceResults(input.service_id)) = 0 THEN "Service with ID not found"
  ELSE "none"

\* the error calculatePrice throws (steps 1 and 3), "none" when it returns
calculatePriceError(zs, input) ==
  IF Len(serviceResults(input.service_id)) = 0 THEN "Service with ID not found"
  ELSE IF ~zoneExists(zs, input.zone_id) THEN "Zone with ID not found"
  ELSE "none"

\* the fee of step 4 waived beyond 12 km
distance_fee_WaivedFarAway(zone, rules, geo_point) ==
  LET distanceFeeRules == enabledRules(rules, "distance_fee")
  IN IF Len(distanceFeeRules) = 0 \/ ~distanceFeeRules[1].value_json.valid
        \/ ~zone.polygon_or_center.valid
     THEN 0
     ELSE LET zoneCenter == zone.polygon_or_center.value
              distance == calculateDistanceKm(geo_point.lat, geo_point.lng,
                                              numberAt(zoneCenter, "lat"), numberAt(zoneCenter, "lng"))
          IN IF distance > DEFAULT_FREE_RADIUS_KM /\ distance <= 12
             THEN (distance - DEFAULT_FREE_RADIUS_KM) * DEFAULT_FEE_PER_KM
             ELSE 0

(* step 4: the distance fee.  Either JSON.parse throwing is caught and leaves
   the fee 0; zoneCenter.lat && zoneCenter.lng is false for a missing or zero
   coordinate. *)
distance_fee(zone, rules, geo_point) ==
  LET distanceFeeRules == enabledRules(rules, "distance_fee")
  IN IF Len(distanceFeeRules) = 0 THEN 0
     ELSE IF ~distanceFeeRules[1].value_json.valid THEN 0
     ELSE IF ~zone.polygon_or_center.valid THEN 0
     ELSE LET distanceRule == distanceFeeRules[1].value_json.value
              zoneCenter == zone.polygon_or_center.value
          IN IF numberAt(zoneCenter, "lat") \notin {NaN, 0} /\ numberAt(zoneCenter, "lng") \notin {NaN, 0}
             THEN LET distance == calculateDistanceKm(geo_point.lat, geo_point.lng,
                                                      zoneCenter.lat, zoneCenter.lng)
                      free_radius_km == orDefault(numberAt(distanceRule, "free_radius_km"),
                                                  DEFAULT_FREE_RADIUS_KM)
                  IN IF distance > free_radius_km
                     THEN LET extra_distance == distance - free_radius_km
                          IN extra_distance * orDefault(numberAt(distanceRule, "fee_per_km"),
                                                        DEFAULT_FEE_PER_KM)
                     ELSE 0
             ELSE 0

\* step 5: the multiplier, in tenths; a throwing JSON.parse leaves it 1
car_type_multiplier(rules, car_type) ==
  LET carTypePricingRules == enabledRules(rules, "car_type_multipliers")
  IN IF Len(carTypePricingRules) = 0 THEN Tenths
     ELSE IF ~carTypePricingRules[1].value_json.valid THEN Tenths
     ELSE orDefault(numberAt(carTypePricingRules[1].value_json.value, car_type), Tenths)

\* the total made of the amounts before the multiplier
priceBreakdown_TotalUnscaled(base_price, addons_total, fee, multiplier, estimated_duration) ==
  [base_price |-> (base_price * multiplier) \div Tenths,
   addons_total |-> (addons_total * multiplier) \div Tenths,
   distance_fee |-> fee,
   total_price |-> base_price + addons_total + fee,
   estimated_duration |-> estimated_duration]

\* the end of step 5 and the returned object
priceBreakdown(base_price, addons_total, fee, multiplier, estimated_duration) ==
  LET adjusted_base_price == (base_price * multiplier) \div Tenths
      adjusted_addons_total == (addons_total * multiplier) \div Tenths
  IN [base_price |-> adjusted_base_price,
      addons_total |-> adjusted_addons_total,
      distance_fee |-> fee,
      total_price |-> adjusted_base_price + adjusted_addons_total + fee,
      estimated_duration |-> estimated_duration]

\* what calculatePrice returns: the thrown error alone, or the breakdown
calculatePrice(zs, rules, input) ==
  LET err == calculatePriceError(zs, input)
  IN IF err # "none" THEN [error |-> err]
     ELSE LET service == Head(serviceResults(input.service_id))
              base_price == IF input.is_solo THEN parseFloat(service.base_price_solo)
                                             ELSE parseFloat(service.base_price_team)
              rows == addonResults(input.addons)
              zone == Head(SelectSeq(zs, LAMBDA z : z.id = input.zone_id))
          IN [error |-> "none"] @@
             priceBreakdown(base_price,
                            addonsPriceSum(rows),
                            distance_fee(zone, rules, input.geo_point),
                            car_type_multiplier(rules, input.car_type),
                            service.est_minutes + addonsMinutesSum(rows))

---------------------------------------------------------------------------
(* pricing_rules handler: getPricingRuleByKey and calculateDistanceFee *)

\* what calculateDistanceFee returns when it cannot tell, in tenths
DEFAULT_DISTANCE_FEE == 10 * Tenths

\* the fallbacks of the three rule fields: 5 km, 2 per km, at most 50
DEFAULT_MAX_FREE_DISTANCE_KM == 5
DEFAULT_RULE_FEE_PER_KM == 2 * Tenths
DEFAULT_MAX_FEE == 50 * Tenths

\* the rows with the key, enabled or not: the first one is the rule, none is null
getPricingRuleByKey(rules, key) == SelectSeq(rules, LAMBDA r : r.key = key)

\* the helper at the end of the handler, the same formula as in get_zones.ts
calculateHaversineDistance(lat1, lon1, lat2, lon2) == calculateDistance(lat1, lon1, lat2, lon2)

\* the fee of a point for a zone, in tenths
calculateDistanceFee(zs, rules, geo_point, zone_id) ==
  LET found == SelectSeq(zs, LAMBDA z : z.id = zone_id)
  IN IF Len(found) = 0 THEN DEFAULT_DISTANCE_FEE
     ELSE IF ~found[1].polygon_or_center.valid THEN DEFAULT_DISTANCE_FEE
     ELSE LET zoneData == found[1].polygon_or_center.value
              distanceFeeRule == getPricingRuleByKey(rules, "distance_fee")
          IN IF Len(distanceFeeRule) = 0 \/ ~distanceFeeRule[1].enabled THEN 0
             ELSE IF ~distanceFeeRule[1].value_json.valid THEN 0
             ELSE IF "center" \in DOMAIN zoneData
                  THEN LET ruleConfig == distanceFeeRule[1].value_json.value
                           distance == calculateHaversineDistance(geo_point.lat, geo_point.lng,
                                                                  numberAt(zoneData.center, "lat"),
                                                                  numberAt(zoneData.center, "lng"))
                           maxFreeDistance == orDefault(numberAt(ruleConfig, "max_free_distance_km"),
                                                        DEFAULT_MAX_FREE_DISTANCE_KM)
                           feePerKm == orDefault(numberAt(ruleConfig, "fee_per_km"),
                                                 DEFAULT_RULE_FEE_PER_KM)
                           maxFee == orDefault(numberAt(ruleConfig, "max_fee"), DEFAULT_MAX_FEE)
                           calculatedFee == (distance - maxFreeDistance) * feePerKm
                       IN IF distance = NaN THEN NaN
                          ELSE IF distance <= maxFreeDistance THEN 0
                          ELSE IF calculatedFee < maxFee THEN calculatedFee ELSE maxFee
                  ELSE DEFAULT_DISTANCE_FEE

---------------------------------------------------------------------------

(* createBooking *)

customersByPhone(cs, phone) == SelectSeq(cs, LAMBDA c : c.phone = phone)

\* step 1: the customers table after "create or find customer by phone"
customersAfterFind(cs, input) ==
  IF Len(customersByPhone(cs, input.customer.phone)) > 0 THEN cs
  ELSE Append(cs, [id |-> Len(cs) + 1,
                   name |-> input.customer.name,
                   phone |-> input.customer.phone,
                   whatsapp_verified |-> FALSE])

\* the error createBooking throws for this input, "none" when it goes through
createBookingError(zs, input) ==
  IF ~(\E i \in 1..Len(servicesTable) : servicesTable[i].id = input.service_id)
  THEN "Service not found"
  ELSE IF ~zoneExists(zs, input.zone_id)
  THEN "Zone not found"
  ELSE IF Len(input.addons) > 0 /\ Len(addonsIn(input.addons)) # Len(input.addons)
  THEN "One or more addons not found"
  ELSE "none"

insertedStatus_Postponed == "postponed"

\* the status column createBooking writes
insertedStatus == "confirmed"

\* steps 5 and 6: the row createBooking inserts
newBookingRow(bk, cs, input) ==
  LET customer == Head(customersByPhone(cs, input.customer.phone))
      service == Head(SelectSeq(servicesTable, LAMBDA sv : sv.id = input.service_id))
      basePrice == IF input.is_solo THEN service.base_price_solo ELSE service.base_price_team
      addonsPrice == sumPrices(addonsIn(input.addons))
      distanceFee == 0
      totalPrice == basePrice + addonsPrice + distanceFee
  IN [id |-> Len(bk) + 1,
      customer_id |-> customer.id,
      service_id |-> input.service_id,
      addons |-> input.addons,
      car_type |-> input.car_type,
      zone_id |-> input.zone_id,
      address_text |-> input.address_text,
      geo_point |-> input.geo_point,
      scheduled_window_start |-> input.scheduled_window.start,
      scheduled_window_end |-> input.scheduled_window.end,
      status |-> insertedStatus,
      price_total |-> totalPrice,
      is_solo |-> input.is_solo,
      distance_fee |-> distanceFee]

\* the whole handler: customers, bookings and the returned value
createBookingWrites(input) ==
  LET cs == customersAfterFind(customers, input)
      err == createBookingError(zones, input)
  IN /\ customers' = cs
     /\ IF err = "none"
        THEN LET row == newBookingRow(bookings, cs, input)
             IN /\ bookings' = Append(bookings, row)
                /\ last' = [op |-> "createBooking", args |-> input,
                            ret |-> [error |-> "none", booking_id |-> row.id,
                                     price_total |-> row.price_total]]
        ELSE /\ bookings' = bookings
             /\ last' = [op |-> "createBooking", args |-> input,
                         ret |-> [error |-> err, booking_id |-> 0, price_total |-> 0]]

createBooking(input) ==
  /\ Len(bookings) < MaxBookings
  /\ createBookingWrites(input)
  /\ UNCHANGED <<zones, pricing_rules, callers>>

---------------------------------------------------------------------------
(* updateBooking: the input is a record holding only the provided fields *)

UpdatableFields == {"status", "scheduled_window_start", "scheduled_window_end",
                    "address_text", "geo_point"}

\* the values set when rescheduling also puts the booking back to confirmed
updateValues_Reconfirming(input) ==
  LET values == [f \in (DOMAIN input) \cap UpdatableFields |-> input[f]]
  IN IF "scheduled_window_start" \in DOMAIN values
     THEN [status |-> "confirmed"] @@ values
     ELSE values

updateValues(input) == [f \in (DOMAIN input) \cap UpdatableFields |-> input[f]]

updateBooking(input) ==
  LET existingBookings == SelectSeq(bookings, LAMBDA b : b.id = input.id)
      values == updateValues(input)
  IN /\ IF Len(existingBookings) = 0
        THEN /\ bookings' = bookings
             /\ last' = [op |-> "updateBooking", args |-> input,
                         ret |-> [error |-> "Booking not found"]]
        ELSE IF DOMAIN values = {}
        THEN /\ bookings' = bookings
             /\ last' = [op |-> "updateBooking", args |-> input,
                         ret |-> [error |-> "none", booking |-> Head(existingBookings)]]
        ELSE /\ bookings' = [i \in 1..Len(bookings) |->
                               IF bookings[i].id = input.id
                               THEN [f \in DOMAIN bookings[i] |->
                                       IF f \in DOMAIN values THEN values[f] ELSE bookings[i][f]]
                               ELSE bookings[i]]
             /\ last' = [op |-> "updateBooking", args |-> input,
                         ret |-> [error |-> "none",
                                  booking |-> Head(SelectSeq(bookings', LAMBDA b : b.id = input.id))]]
     /\ UNCHANGED <<zones, pricing_rules, customers, callers>>

---------------------------------------------------------------------------
(* The read endpoints, each recording what it returned *)

\* the call also closing the confirmed bookings of the zone it has counted
GetAvailableTimeSlots_Expiring(zone_id, service_duration, date) ==
  /\ last' = [op |-> "getAvailableTimeSlots",
              args |-> <<zone_id, service_duration, date>>,
              ret |-> getAvailableTimeSlots(zones, bookings, zone_id, service_duration, date)]
  /\ bookings' = [i \in 1..Len(bookings) |->
                    IF bookings[i].zone_id = zone_id /\ bookings[i].status = "confirmed"
                    THEN [bookings[i] EXCEPT !.status = "finished"]
                    ELSE bookings[i]]
  /\ UNCHANGED <<zones, pricing_rules, customers, callers>>

GetAvailableTimeSlots(zone_id, service_duration, date) ==
  /\ last' = [op |-> "getAvailableTimeSlots",
              args |-> <<zone_id, service_duration, date>>,
              ret |-> getAvailableTimeSlots(zones, bookings, zone_id, service_duration, date)]
  /\ UNCHANGED <<zones, pricing_rules, bookings, customers, callers>>

ValidateTimeSlot(zone_id, start_time, end_time) ==
  /\ last' = [op |-> "validateTimeSlot",
              args |-> <<zone_id, start_time, end_time>>,
              ret |-> validateTimeSlot(zones, bookings, zone_id, start_time, end_time)]
  /\ UNCHANGED <<zones, pricing_rules, bookings, customers, callers>>

GetZoneSchedule(zone_id, date) ==
  /\ last' = [op |-> "getZoneSchedule",
              args |-> <<zone_id, date>>,
              ret |-> getZoneSchedule(bookings, zone_id, date)]
  /\ UNCHANGED <<zones, pricing_rules, bookings, customers, callers>>

---------------------------------------------------------------------------
(* Inputs of the store specification *)

\* the zones of the store specifications: two center zones (ids are serial)
StoreZones ==
  <<[id |-> 1, polygon_or_center |->
       [valid |-> TRUE, value |-> [type |-> "center", lat |-> 2, lng |-> 2, radius |-> 3]]],
    [id |-> 2, polygon_or_center |->
       [valid |-> TRUE, value |-> [type |-> "center", lat |-> 12, lng |-> 2, radius |-> 3]]]>>

\* a zone id no row has
UnknownZone == 99999
\* a service id no row has
UnknownService == 99999

RequestZones == {1, 2, UnknownZone}

\* the first generated slot of day 1
Wa == [start |-> At(1, 8, 0), end |-> At(1, 9, 30)]
\* a window that starts at the instant Wa ends
Wt == [start |-> At(1, 9, 30), end |-> At(1, 11, 0)]
\* a window from the afternoon of day 0 into the morning of day 1
Wx == [start |-> At(0, 17, 0), end |-> At(1, 9, 0)]
\* windows outside the operating hours
Wearly == [start |-> At(1, 6, 0), end |-> At(1, 7, 30)]
Wlate == [start |-> At(1, 17, 0), end |-> At(1, 20, 0)]

Windows == {Wa, Wt, Wx}

Dates == {At(0, 0, 0), At(1, 10, 30)}

Durations == {60, 61}

bookingInput(zone_id, w, service_id) ==
  [customer |-> [name |-> "Test Customer", phone |-> "+966501234567"],
   service_id |-> service_id,
   addons |-> <<>>,
   car_type |-> "sedan",
   zone_id |-> zone_id,
   address_text |-> "Test Address",
   geo_point |-> [lat |-> 2, lng |-> 2],
   scheduled_window |-> w,
   is_solo |-> FALSE]

BookingInputs ==
  {bookingInput(1, w, 1) : w \in Windows}
    \cup {bookingInput(2, Wa, 1), bookingInput(UnknownZone, Wa, 1),
          bookingInput(1, Wa, UnknownService)}

\* updateBooking is called for the first booking and for an id no row has
BookingIds == {1, MaxBookings + 1}

UpdateInputs ==
  {[id |-> i] : i \in BookingIds}
    \cup {[id |-> i, status |-> st] : i \in BookingIds, st \in Statuses}
    \cup {[id |-> i, scheduled_window_start |-> Wt.start, scheduled_window_end |-> Wt.end] :
            i \in BookingIds}

SlotQueries == RequestZones \X Durations \X Dates

WindowQueries == RequestZones \X {Wa, Wx, Wearly, Wlate}

ScheduleQueries == {1, 2} \X Dates

---------------------------------------------------------------------------
(* The store specification: the booking writers and the read endpoints *)

Callers == {1, 2}

idle == [pc |-> "idle", zone_id |-> 0, start |-> 0, end |-> 0, ok |-> FALSE, seen |-> 0]

NoCall == [op |-> "none", args |-> <<>>, ret |-> <<>>]

Init ==
  /\ zones = StoreZones
  /\ bookings = <<>>
  /\ customers = <<>>
  /\ pricing_rules = <<>>
  /\ callers = [c \in Callers |-> idle]
  /\ last = NoCall

Next ==
  \/ \E input \in BookingInputs : createBooking(input)
  \/ \E input \in UpdateInputs : updateBooking(input)
  \/ \E q \in SlotQueries : GetAvailableTimeSlots(q[1], q[2], q[3])
  \/ \E q \in WindowQueries : ValidateTimeSlot(q[1], q[2].start, q[2].end)
  \/ \E q \in ScheduleQueries : GetZoneSchedule(q[1], q[2])

Spec == Init /\ [][Next]_vars

---------------------------------------------------------------------------
(* The race specification: two callers that each validate a slot and then,
   in a separate call, book it *)

RaceZones == {1, 2}

RaceWindows == {Wa}

\* validateTimeSlot(zone, start, end) by caller c; seen is the number of
\* conflicting bookings the call counted
CheckSlot(c, zone_id, w) ==
  /\ callers[c].pc = "idle"
  /\ Len(bookings) < DEFAULT_TEAM_CAPACITY + RaceExtra
  /\ callers' = [callers EXCEPT ![c] =
                   [pc |-> "checked", zone_id |-> zone_id, start |-> w.start, end |-> w.end,
                    ok |-> validateTimeSlot(zones, bookings, zone_id, w.start, w.end),
                    seen |-> Len(getConflictingBookings(bookings, zone_id, w.start, w.end))]]
  /\ last' = [op |-> "validateTimeSlot", args |-> <<zone_id, w.start, w.end>>,
              ret |-> validateTimeSlot(zones, bookings, zone_id, w.start, w.end)]
  /\ UNCHANGED <<zones, pricing_rules, bookings, customers>>

\* createBooking for the slot the caller saw free
BookSlot(c) ==
  /\ callers[c].pc = "checked"
  /\ callers[c].ok
  /\ createBookingWrites(bookingInput(callers[c].zone_id,
                                      [start |-> callers[c].start, end |-> callers[c].end], 1))
  /\ callers' = [callers EXCEPT ![c].pc = "booked"]
  /\ UNCHANGED <<zones, pricing_rules>>

\* the caller saw the slot taken and does not book
GiveUp(c) ==
  /\ callers[c].pc = "checked"
  /\ ~callers[c].ok
  /\ callers' = [callers EXCEPT ![c] = idle]
  /\ UNCHANGED <<zones, pricing_rules, bookings, customers, last>>

\* the caller's request is over
Finish(c) ==
  /\ callers[c].pc = "booked"
  /\ callers' = [callers EXCEPT ![c] = idle]
  /\ UNCHANGED <<zones, pricing_rules, bookings, customers, last>>

RaceNext ==
  \/ \E c \in Callers, z \in RaceZones, w \in RaceWindows : CheckSlot(c, z, w)
  \/ \E c \in Callers : BookSlot(c)
  \/ \E c \in Callers : GiveUp(c)
  \/ \E c \in Callers : Finish(c)

SpecRace == Init /\ [][RaceNext]_vars

---------------------------------------------------------------------------
(* The zone specification: getZoneByLocation over every small zones table *)

parsed(value) == [valid |-> TRUE, value |-> value]

Geometries ==
  { parsed([type |-> "center", lat |-> 2, lng |-> 2, radius |-> 3]),
    parsed([type |-> "center", lat |-> 4, lng |-> 2, radius |-> 3]),
    parsed([type |-> "center", lat |-> 2, lng |-> 2, radius |-> 1]),
    parsed([type |-> "center", lat |-> 2, lng |-> 2, radius |-> 0]),
    parsed([type |-> "center", lat |-> 2, lng |-> 2]),
    parsed([type |-> "center", lng |-> 2, radius |-> 3]),
    parsed([type |-> "polygon",
            coordinates |-> <<[lat |-> 1, lng |-> 1], [lat |-> 5, lng |-> 1],
                              [lat |-> 5, lng |-> 5], [lat |-> 1, lng |-> 5]>>]),
    parsed([type |-> "polygon"]),
    parsed([lat |-> 2, lng |-> 2]),
    [valid |-> FALSE, value |-> [text |-> "invalid json"]] }

\* the zones tables of up to MaxZones rows, ids serial
ZoneTables ==
  UNION {{[i \in 1..n |-> [id |-> i, polygon_or_center |-> g[i]]] : g \in [1..n -> Geometries]} :
           n \in 1..MaxZones}

Points == {[lat |-> 2, lng |-> 2], [lat |-> 2, lng |-> 3], [lat |-> 3, lng |-> 4],
           [lat |-> 2, lng |-> 8], [lat |-> 2, lng |-> 20]}

GetZoneByLocation(lat, lng) ==
  /\ last' = [op |-> "getZoneByLocation", args |-> <<lat, lng>>,
              ret |-> getZoneByLocation(zones, lat, lng)]
  /\ UNCHANGED <<zones, pricing_rules, bookings, customers, callers>>

InitZones ==
  /\ zones \in ZoneTables
  /\ bookings = <<>>
  /\ customers = <<>>
  /\ pricing_rules = <<>>
  /\ callers = [c \in Callers |-> idle]
  /\ last = NoCall

NextZones == \E p \in Points : GetZoneByLocation(p.lat, p.lng)

SpecZones == InitZones /\ [][NextZones]_vars

---------------------------------------------------------------------------
(* The polygon specification: getZoneByLocation over one polygon zone, for
   every point of a grid around it *)

\* the grid of points is 0..GridMax in both coordinates
GridMax == 6

\* the polygon of the tests, corners in the order (lo,lo) (hi,lo) (hi,hi) (lo,hi)
Rectangle == <<[lat |-> 1, lng |-> 1], [lat |-> 5, lng |-> 1],
               [lat |-> 5, lng |-> 5], [lat |-> 1, lng |-> 5]>>

NarrowRectangle == <<[lat |-> 2, lng |-> 1], [lat |-> 2, lng |-> 5],
                     [lat |-> 4, lng |-> 5], [lat |-> 4, lng |-> 1]>>

Triangle == <<[lat |-> 1, lng |-> 1], [lat |-> 5, lng |-> 3], [lat |-> 1, lng |-> 5]>>

\* a concave polygon: a 4 x 4 square without its upper right quarter
LShape == <<[lat |-> 1, lng |-> 1], [lat |-> 5, lng |-> 1], [lat |-> 5, lng |-> 3],
            [lat |-> 3, lng |-> 3], [lat |-> 3, lng |-> 5], [lat |-> 1, lng |-> 5]>>

\* the same coordinate list started k vertices later
rotate(polygon, k) == [i \in 1..Len(polygon) |-> polygon[((i + k - 1) % Len(polygon)) + 1]]

Polygons ==
  UNION {{rotate(polygon, k) : k \in 0..(Len(polygon) - 1)} :
           polygon \in {Rectangle, NarrowRectangle, Triangle, LShape}}

PolygonPoints == [lat : 0..GridMax, lng : 0..GridMax]

InitPolygon ==
  /\ zones \in {<<[id |-> 1, polygon_or_center |->
                               parsed([type |-> "polygon", coordinates |-> polygon])]>> :
                  polygon \in Polygons}
  /\ pricing_rules = <<>>
  /\ bookings = <<>>
  /\ customers = <<>>
  /\ callers = [c \in Callers |-> idle]
  /\ last = NoCall

NextPolygon == \E p \in PolygonPoints : GetZoneByLocation(p.lat, p.lng)

SpecPolygon == InitPolygon /\ [][NextPolygon]_vars

---------------------------------------------------------------------------
(* The price specification: calculatePrice over the configurations below *)

\* a text column that JSON.parse rejects
InvalidJson == [valid |-> FALSE, value |-> [text |-> "invalid json"]]

\* the zones: one that has a center, a polygon, one whose text does not parse
PriceZones ==
  <<[id |-> 1, polygon_or_center |-> parsed([lat |-> 10, lng |-> 10])],
    [id |-> 2, polygon_or_center |-> parsed([type |-> "polygon", coordinates |-> Rectangle])],
    [id |-> 3, polygon_or_center |-> InvalidJson]>>

\* a distance_fee rule: absent, or a payload and the enabled flag
DistanceRuleChoices ==
  { <<>>,
    <<parsed([max_free_distance_km |-> 5, fee_per_km |-> 25, max_fee |-> 500]), TRUE>>,
    <<parsed([free_radius_km |-> 5, fee_per_km |-> 30]), TRUE>>,
    <<parsed([free_radius_km |-> 5, fee_per_km |-> 30]), FALSE>>,
    <<parsed([free_radius_km |-> 2, fee_per_km |-> 20]), TRUE>>,
    <<parsed([free_radius_km |-> 0, fee_per_km |-> 0]), TRUE>>,
    <<InvalidJson, TRUE>> }

\* a car_type_multipliers rule: absent, or a payload and the enabled flag
CarTypeRuleChoices ==
  { <<>>,
    <<parsed([sedan |-> 10, suv |-> 12, pickup |-> 15]), TRUE>>,
    <<parsed([sedan |-> 10, suv |-> 12, pickup |-> 15]), FALSE>>,
    <<parsed([sedan |-> 10, pickup |-> 15]), TRUE>>,
    <<parsed([sedan |-> 10, suv |-> 0, pickup |-> 15]), TRUE>>,
    <<InvalidJson, TRUE>> }

\* the rows of pricing_rules made of the two choices (key is unique)
ruleRows(key, choice) ==
  IF choice = <<>> THEN <<>>
  ELSE <<[key |-> key, value_json |-> choice[1], enabled |-> choice[2]]>>

RuleTables ==
  {[i \in 1..Len(rows) |-> [id |-> i] @@ rows[i]] :
     rows \in {ruleRows("distance_fee", d) \o ruleRows("car_type_multipliers", m) :
                 d \in DistanceRuleChoices, m \in CarTypeRuleChoices}}

UnknownAddon == 999

CarTypes == {"sedan", "suv", "pickup"}

\* points 0, 2, 5, 12 and 30 km from the center of zone 1
PricePoints == {[lat |-> 10, lng |-> 10], [lat |-> 10, lng |-> 12], [lat |-> 13, lng |-> 14],
                [lat |-> 10, lng |-> 22], [lat |-> 10, lng |-> 40]}

AddonLists == {<<>>, <<1>>, <<1, 2>>, <<1, 1>>, <<UnknownAddon>>, <<2, UnknownAddon>>}

\* zone and point of a request: every point for the zone that has a center,
\* a far one for the others
PlacesRequested == ({1} \X PricePoints) \cup ({2, 3} \X {[lat |-> 10, lng |-> 40]})

priceInput(service_id, addons, car_type, place, is_solo) ==
  [service_id |-> service_id, addons |-> addons, car_type |-> car_type,
   zone_id |-> place[1], geo_point |-> place[2], is_solo |-> is_solo]

\* the requests: every combination for the existing service and zones, and
\* requests naming a service or a zone that does not exist
PriceInputs ==
  {priceInput(1, addons, car_type, place, is_solo) :
     addons \in AddonLists, car_type \in CarTypes, place \in PlacesRequested, is_solo \in BOOLEAN}
  \cup
  {priceInput(ids[1], addons, "sedan", <<ids[2], [lat |-> 10, lng |-> 12]>>, FALSE) :
     ids \in {<<UnknownService, 1>>, <<1, UnknownZone>>, <<UnknownService, UnknownZone>>},
     addons \in {<<>>, <<UnknownAddon>>}}

CalculatePrice(input) ==
  /\ last' = [op |-> "calculatePrice", args |-> input,
              ret |-> calculatePrice(zones, pricing_rules, input)]
  /\ UNCHANGED <<zones, pricing_rules, bookings, customers, callers>>

InitPrice ==
  /\ zones = PriceZones
  /\ pricing_rules \in RuleTables
  /\ bookings = <<>>
  /\ customers = <<>>
  /\ callers = [c \in Callers |-> idle]
  /\ last = NoCall

NextPrice == \E input \in PriceInputs : CalculatePrice(input)

SpecPrice == InitPrice /\ [][NextPrice]_vars

---------------------------------------------------------------------------
(* The fee specification: calculateDistanceFee over the configurations below *)

\* the zones: the center as the handler's tests store it, as the zone resolver
\* reads it, a polygon, and a text that does not parse
FeeZones ==
  <<[id |-> 1, polygon_or_center |-> parsed([center |-> [lat |-> 10, lng |-> 10]])],
    [id |-> 2, polygon_or_center |-> parsed([type |-> "center", lat |-> 10, lng |-> 10, radius |-> 15])],
    [id |-> 3, polygon_or_center |-> parsed([type |-> "polygon", coordinates |-> Rectangle])],
    [id |-> 4, polygon_or_center |-> InvalidJson]>>

\* a distance_fee rule: absent, or a payload and the enabled flag
FeeRuleChoices ==
  { <<>>,
    <<parsed([max_free_distance_km |-> 5, fee_per_km |-> 25, max_fee |-> 500]), TRUE>>,
    <<parsed([max_free_distance_km |-> 5, fee_per_km |-> 25, max_fee |-> 500]), FALSE>>,
    <<parsed([max_free_distance_km |-> 1, fee_per_km |-> 1000, max_fee |-> 250]), TRUE>>,
    <<InvalidJson, TRUE>> }

FeeRuleTables ==
  {[i \in 1..Len(rows) |-> [id |-> i] @@ rows[i]] :
     rows \in {ruleRows("distance_fee", d) : d \in FeeRuleChoices}}

\* the requests: every point for every zone and for a zone that does not exist
FeeRequests == ({FeeZones[i].id : i \in 1..Len(FeeZones)} \cup {UnknownZone}) \X PricePoints

CalculateDistanceFee(geo_point, zone_id) ==
  /\ last' = [op |-> "calculateDistanceFee",
              args |-> [geo_point |-> geo_point, zone_id |-> zone_id],
              ret |-> calculateDistanceFee(zones, pricing_rules, geo_point, zone_id)]
  /\ UNCHANGED <<zones, pricing_rules, bookings, customers, callers>>

InitFee ==
  /\ zones = FeeZones
  /\ pricing_rules \in FeeRuleTables
  /\ bookings = <<>>
  /\ customers = <<>>
  /\ callers = [c \in Callers |-> idle]
  /\ last = NoCall

NextFee == \E r \in FeeRequests : CalculateDistanceFee(r[2], r[1])

SpecFee == InitFee /\ [][NextFee]_vars

---------------------------------------------------------------------------

(* The customer specification: createBooking and createCustomer one database
   call at a time.  Each handler awaits its select before its insert, and
   the calls of another request may run between the two. *)

MaxCustomers == 3

Phones == {"+966501234567", "+966509876543"}

\* createCustomer inputs and createBooking inputs, one of each per phone
CustomerRequests ==
  {[op |-> "createCustomer",
    input |-> [name |-> "Test Customer", phone |-> p, whatsapp_verified |-> FALSE]] : p \in Phones}
  \cup
  {[op |-> "createBooking",
    input |-> [bookingInput(1, Wa, 1) EXCEPT !.customer.phone = p]] : p \in Phones}

\* the calls that have selected and not yet returned
InFlight(op) == Cardinality({c \in Callers : callers[c].pc # "idle" /\ callers[c].op = op})

\* db.select().from(customersTable).where(eq(phone)) of either handler
SelectCustomer(c, req) ==
  /\ callers[c].pc = "idle"
  /\ Len(customers) + InFlight("createCustomer") + InFlight("createBooking") < MaxCustomers
  /\ req.op = "createBooking" => Len(bookings) + InFlight("createBooking") < MaxBookings
  /\ callers' = [callers EXCEPT ![c] =
                   [pc |-> "selected", op |-> req.op, input |-> req.input,
                    existingCustomers |->
                      customersByPhone(customers,
                                       IF req.op = "createBooking" THEN req.input.customer.phone
                                       ELSE req.input.phone)]]
  /\ UNCHANGED <<zones, pricing_rules, bookings, customers, last>>

\* the branch taken when the select returned a row: no insert
ReuseCustomer(c) ==
  /\ callers[c].pc = "selected"
  /\ Len(callers[c].existingCustomers) > 0
  /\ LET customer == callers[c].existingCustomers[1]
     IN IF callers[c].op = "createCustomer"
        THEN /\ callers' = [callers EXCEPT ![c] = idle]
             /\ last' = [op |-> "createCustomer", args |-> callers[c].input, ret |-> customer]
        ELSE /\ callers' = [callers EXCEPT ![c] =
                              [pc |-> "customer", op |-> "createBooking",
                               input |-> callers[c].input, customer |-> customer]]
             /\ last' = last
  /\ UNCHANGED <<zones, pricing_rules, bookings, customers>>

\* the branch taken when the select returned nothing: db.insert(customersTable)
InsertCustomer(c) ==
  /\ callers[c].pc = "selected"
  /\ Len(callers[c].existingCustomers) = 0
  /\ LET input == callers[c].input
         customer == IF callers[c].op = "createCustomer"
                     THEN [id |-> Len(customers) + 1, name |-> input.name, phone |-> input.phone,
                           whatsapp_verified |-> input.whatsapp_verified]
                     ELSE [id |-> Len(customers) + 1, name |-> input.customer.name,
                           phone |-> input.customer.phone, whatsapp_verified |-> FALSE]
     IN /\ customers' = Append(customers, customer)
        /\ IF callers[c].op = "createCustomer"
           THEN /\ callers' = [callers EXCEPT ![c] = idle]
                /\ last' = [op |-> "createCustomer", args |-> input, ret |-> customer]
           ELSE /\ callers' = [callers EXCEPT ![c] =
                                 [pc |-> "customer", op |-> "createBooking",
                                  input |-> input, customer |-> customer]]
                /\ last' = last
  /\ UNCHANGED <<zones, pricing_rules, bookings>>

\* steps 2 to 6 of createBooking, for the customer of step 1
InsertBooking(c) ==
  /\ callers[c].pc = "customer"
  /\ LET input == callers[c].input
         err == createBookingError(zones, input)
         row == [newBookingRow(bookings, customers, input)
                   EXCEPT !.customer_id = callers[c].customer.id]
     IN IF err = "none"
        THEN /\ bookings' = Append(bookings, row)
             /\ last' = [op |-> "createBooking", args |-> input,
                         ret |-> [error |-> "none", booking_id |-> row.id,
                                  price_total |-> row.price_total]]
        ELSE /\ bookings' = bookings
             /\ last' = [op |-> "createBooking", args |-> input,
                         ret |-> [error |-> err, booking_id |-> 0, price_total |-> 0]]
  /\ callers' = [callers EXCEPT ![c] = idle]
  /\ UNCHANGED <<zones, pricing_rules, customers>>

NextCustomers ==
  \E c \in Callers :
    \/ \E req \in CustomerRequests : SelectCustomer(c, req)
    \/ ReuseCustomer(c)
    \/ InsertCustomer(c)
    \/ InsertBooking(c)

SpecCustomers == Init /\ [][NextCustomers]_vars

---------------------------------------------------------------------------

(* The booking specification: createBooking over the requests below, under
   every pricing rule table of the price specification *)

bookingRequest(phone, service_id, addons, car_type, place, w, is_solo) ==
  [customer |-> [name |-> "Test Customer", phone |-> phone],
   service_id |-> service_id,
   addons |-> addons,
   car_type |-> car_type,
   zone_id |-> place[1],
   address_text |-> "Test Address",
   geo_point |-> place[2],
   scheduled_window |-> w,
   is_solo |-> is_solo]

\* two requests that name existing rows, and requests that name a service,
\* a zone or an addon that does not exist, or an addon twice
BookingRequests ==
  { bookingRequest("+966501234567", 1, <<>>, "sedan", <<1, [lat |-> 10, lng |-> 12]>>, Wa, FALSE),
    bookingRequest("+966509876543", 1, <<1, 2>>, "pickup", <<1, [lat |-> 10, lng |-> 40]>>, Wt, TRUE),
    bookingRequest("+966501234567", UnknownService, <<>>, "sedan", <<1, [lat |-> 10, lng |-> 12]>>, Wa, FALSE),
    bookingRequest("+966509876543", 1, <<>>, "suv", <<UnknownZone, [lat |-> 10, lng |-> 12]>>, Wa, FALSE),
    bookingRequest("+966501234567", 1, <<2, UnknownAddon>>, "sedan", <<1, [lat |-> 10, lng |-> 12]>>, Wa, FALSE),
    bookingRequest("+966501234567", 1, <<1, 1>>, "sedan", <<1, [lat |-> 10, lng |-> 12]>>, Wa, FALSE) }

InitBooking ==
  /\ zones = PriceZones
  /\ pricing_rules \in RuleTables
  /\ bookings = <<>>
  /\ customers = <<>>
  /\ callers = [c \in Callers |-> idle]
  /\ last = NoCall

NextBooking == \E input \in BookingRequests : createBooking(input)

SpecBooking == InitBooking /\ [][NextBooking]_vars

---------------------------------------------------------------------------

(* The update specification: updateBooking on a table of two bookings,
   with every choice of the fields supplied *)

SeedCustomers == customersAfterFind(<<>>, bookingInput(1, Wa, 1))

SeedBookings ==
  LET first == newBookingRow(<<>>, SeedCustomers, bookingInput(1, Wa, 1))
      second == newBookingRow(<<first>>, SeedCustomers, bookingInput(2, Wt, 1))
  IN <<first, second>>

\* the value a request gives to each field it supplies
SuppliedValues ==
  [status |-> "canceled",
   scheduled_window_start |-> At(2, 10, 0),
   scheduled_window_end |-> At(2, 11, 30),
   address_text |-> "Updated Address",
   geo_point |-> [lat |-> 3, lng |-> 3]]

\* requests for the first booking and for an id no row has
UpdateRequests ==
  {[id |-> i] @@ [f \in S |-> SuppliedValues[f]] :
     i \in BookingIds, S \in SUBSET UpdatableFields}

InitUpdate ==
  /\ zones = StoreZones
  /\ pricing_rules = <<>>
  /\ bookings = SeedBookings
  /\ customers = SeedCustomers
  /\ callers = [c \in Callers |-> idle]
  /\ last = NoCall

NextUpdate == \E input \in UpdateRequests : updateBooking(input)

SpecUpdate == InitUpdate /\ [][NextUpdate]_vars

---------------------------------------------------------------------------

(* The writer specification: createBooking and updateBooking alone, no
   availability check between them *)

\* requests for two windows of zone 1 that touch, and one for zone 2
WriterInputs == {bookingInput(1, Wa, 1), bookingInput(1, Wt, 1), bookingInput(2, Wa, 1)}

\* updates of the first two bookings: nothing, a status, a new window
WriterUpdates ==
  {[id |-> i] : i \in {1, 2}}
    \cup {[id |-> i, status |-> st] : i \in {1, 2}, st \in {"canceled", "confirmed"}}
    \cup {[id |-> i, scheduled_window_start |-> Wt.start, scheduled_window_end |-> Wt.end] :
            i \in {1, 2}}

\* createBooking, for as long as the table has room for one row more than
\* the capacity of a slot
WriteBooking(input) ==
  /\ Len(bookings) < DEFAULT_TEAM_CAPACITY + RaceExtra
  /\ createBookingWrites(input)
  /\ UNCHANGED <<zones, pricing_rules, callers>>

NextWriters ==
  \/ \E input \in WriterInputs : WriteBooking(input)
  \/ \E input \in WriterUpdates : updateBooking(input)

SpecWriters == Init /\ [][NextWriters]_vars

---------------------------------------------------------------------------

(* Vocabulary of the properties *)

\* rows of the zone that are confirmed and overlap [s, e) under the half-open test
ConfirmedOverlapping(z, s, e) ==
  {i \in 1..Len(bookings) : /\ bookings[i].zone_id = z
                            /\ bookings[i].status = "confirmed"
                            /\ bookings[i].scheduled_window_start < e
                            /\ s < bookings[i].scheduled_window_end}

\* rows of the zone, whatever their status, that overlap [s, e)
Overlapping(z, s, e) ==
  {i \in 1..Len(bookings) : /\ bookings[i].zone_id = z
                            /\ bookings[i].scheduled_window_start < e
                            /\ s < bookings[i].scheduled_window_end}

\* the ids of the stored zones
ZoneIds == {zones[i].id : i \in 1..Len(zones)}

ConfirmedOnly(bk) == SelectSeq(bk, LAMBDA b : b.status = "confirmed")

SlotsReturned == last.op = "getAvailableTimeSlots" /\ last.ret.error = "none"

OpenMinutes == 8 * 60
CloseMinutes == 18 * 60

\* the windows generated for the day of an instant
GeneratedWindows(date) ==
  {[start |-> setHours(date, 0, 0) + OpenMinutes + k * SLOT_INTERVAL_MINUTES,
    end |-> setHours(date, 0, 0) + OpenMinutes + k * SLOT_INTERVAL_MINUTES + SLOT_WINDOW_MINUTES] :
     k \in 0..8}

---------------------------------------------------------------------------
(* C1: every slot getAvailableTimeSlots returns is flagged available exactly
   when fewer than C = 3 confirmed bookings of the zone overlap it (half-open
   test) and service_duration + B <= W. *)
C1_AvailableIffBelowCapacityAndFits ==
  SlotsReturned =>
    \A i \in 1..Len(last.ret.slots) :
      LET slot == last.ret.slots[i]
      IN slot.available <=>
           (/\ Cardinality(ConfirmedOverlapping(last.args[1], slot.start, slot.end)) < 3
            /\ last.args[2] + 30 <= 90)

(* C3: for a window that getAvailableTimeSlots generates, validateTimeSlot
   returns true exactly when fewer than C confirmed bookings of the zone
   overlap it under the half-open test. *)
C3_ValidateMatchesGeneratedSlotTest ==
  (/\ last.op = "validateTimeSlot"
   /\ last.args[1] \in ZoneIds
   /\ [start |-> last.args[2], end |-> last.args[3]] \in GeneratedWindows(last.args[2]))
  => (last.ret <=>
        Cardinality(ConfirmedOverlapping(last.args[1], last.args[2], last.args[3])) < 3)

(* C4: the three read endpoints count exactly the zone's bookings whose
   current status is confirmed: each returns what it returns on the table
   with every other row removed, and the schedule of a day lists one booked
   slot per confirmed booking of the zone starting that day. *)
C4_OnlyConfirmedCount ==
  /\ last.op = "getAvailableTimeSlots" =>
       last.ret = getAvailableTimeSlots(zones, ConfirmedOnly(bookings),
                                        last.args[1], last.args[2], last.args[3])
  /\ last.op = "validateTimeSlot" =>
       last.ret = validateTimeSlot(zones, ConfirmedOnly(bookings),
                                   last.args[1], last.args[2], last.args[3])
  /\ last.op = "getZoneSchedule" =>
       /\ last.ret = getZoneSchedule(ConfirmedOnly(bookings), last.args[1], last.args[2])
       /\ Len(last.ret.booked_slots) =
            Cardinality({i \in 1..Len(bookings) :
                           /\ bookings[i].zone_id = last.args[1]
                           /\ bookings[i].status = "confirmed"
                           /\ bookings[i].scheduled_window_start \div MinutesPerDay
                                = last.args[2] \div MinutesPerDay})

\* a slot reported available although three bookings overlap it, one of them
\* no longer confirmed
C4_Witness ==
  /\ SlotsReturned
  /\ \E i \in 1..Len(last.ret.slots) :
       LET slot == last.ret.slots[i]
       IN /\ slot.available
          /\ Cardinality(Overlapping(last.args[1], slot.start, slot.end)) >= 3
          /\ \E k \in Overlapping(last.args[1], slot.start, slot.end) :
               bookings[k].status # "confirmed"

(* C5: getAvailableTimeSlots returns the 9 windows of 90 minutes starting at
   08:00, 09:00, ..., 16:00 of the requested day: first start at open, starts
   60 minutes apart, every window inside [open, close], and no further window
   would fit before close. *)
C5_SlotGeneration ==
  SlotsReturned =>
    LET slots == last.ret.slots
        day == (last.args[3] \div MinutesPerDay) * MinutesPerDay
    IN /\ Len(slots) = 9
       /\ slots[1].start = day + OpenMinutes
       /\ \A i \in 1..Len(slots) :
            /\ slots[i].end - slots[i].start = 90
            /\ day + OpenMinutes <= slots[i].start
            /\ slots[i].end <= day + CloseMinutes
            /\ slots[i].start = day + OpenMinutes + (i - 1) * 60
       /\ \A i \in 1..(Len(slots) - 1) : slots[i + 1].start - slots[i].start = 60
       /\ slots[Len(slots)].start + 60 + 90 > day + CloseMinutes

C5_Witness ==
  /\ SlotsReturned
  /\ Len(last.ret.slots) = 9
  /\ last.ret.slots[9].end = setHours(last.args[3], 17, 30)

(* C6: when service_duration + B > W every returned slot is unavailable,
   whatever the bookings, and the full list of generated slots is returned. *)
C6_TooLongMakesAllUnavailable ==
  (SlotsReturned /\ last.args[2] + 30 > 90) =>
    /\ Len(last.ret.slots) = 9
    /\ \A i \in 1..Len(last.ret.slots) : ~last.ret.slots[i].available

\* a too-long request on an empty schedule
C6_Witness ==
  /\ SlotsReturned
  /\ last.args[2] = 61
  /\ bookings = <<>>
  /\ Len(last.ret.slots) = 9
  /\ \A i \in 1..9 : ~last.ret.slots[i].available

(* C7: for a zone id that does not exist getAvailableTimeSlots fails with the
   zone-not-found error and returns no slots, validateTimeSlot returns false,
   and neither call changes a stored record. *)
C7_UnknownZone ==
  /\ [](/\ (last.op = "getAvailableTimeSlots" /\ last.args[1] \notin ZoneIds) =>
             (last.ret.error = "Zone with ID not found" /\ last.ret.slots = <<>>)
        /\ (last.op = "validateTimeSlot" /\ last.args[1] \notin ZoneIds) =>
             last.ret = FALSE)
  /\ [][(last'.op \in {"getAvailableTimeSlots", "validateTimeSlot"}) =>
          (bookings' = bookings /\ customers' = customers /\ zones' = zones)]_vars

\* validateTimeSlot has just answered for an unknown zone, with bookings stored
C7_Witness ==
  /\ last.op = "validateTimeSlot"
  /\ last.args[1] \notin ZoneIds
  /\ last.ret = FALSE
  /\ Len(bookings) > 0

---------------------------------------------------------------------------
(* C2: validateTimeSlot and createBooking are separate calls: two callers can
   both see the same slot free with C - 1 bookings in it and both book it, and
   whenever they have, more than C confirmed bookings overlap the slot. *)
BothBookedAfterSeeingFree ==
  /\ callers[1].pc = "booked" /\ callers[2].pc = "booked"
  /\ callers[1].zone_id = callers[2].zone_id
  /\ callers[1].start = callers[2].start /\ callers[1].end = callers[2].end
  /\ callers[1].ok /\ callers[2].ok
  /\ callers[1].seen = DEFAULT_TEAM_CAPACITY - 1
  /\ callers[2].seen = DEFAULT_TEAM_CAPACITY - 1

C2_CheckThenActRace ==
  BothBookedAfterSeeingFree =>
    Cardinality(ConfirmedOverlapping(callers[1].zone_id, callers[1].start, callers[1].end))
      > DEFAULT_TEAM_CAPACITY

C2_Witness ==
  /\ BothBookedAfterSeeingFree
  /\ Cardinality(ConfirmedOverlapping(callers[1].zone_id, callers[1].start, callers[1].end))
       = DEFAULT_TEAM_CAPACITY + 1

---------------------------------------------------------------------------
(* Vocabulary of the zone properties *)

Resolved == last.op = "getZoneByLocation"

\* the rows whose geometry the code finds to contain the point of the call
Matching == {i \in 1..Len(zones) :
               isLocationInZone(last.args[1], last.args[2], zones[i].polygon_or_center)}

keysOf(g) == DOMAIN g.value

\* geometry that is not one of {type: center, lat, lng, radius} and
\* {type: polygon, coordinates}
Malformed(g) ==
  \/ ~g.valid
  \/ typeAt(g.value) \notin {"center", "polygon"}
  \/ typeAt(g.value) = "center" /\ ~({"lat", "lng", "radius"} \subseteq keysOf(g))
  \/ typeAt(g.value) = "polygon" /\ "coordinates" \notin keysOf(g)

\* malformed geometry other than a center that lacks only its radius
Unusable(g) ==
  \/ ~g.valid
  \/ typeAt(g.value) \notin {"center", "polygon"}
  \/ typeAt(g.value) = "center" /\ ~({"lat", "lng"} \subseteq keysOf(g))
  \/ typeAt(g.value) = "polygon" /\ "coordinates" \notin keysOf(g)

(* C8: getZoneByLocation returns the first zone, in stored order, whose
   geometry contains the point, and null when none contains it. *)
C8_FirstMatchingZone ==
  Resolved =>
    IF Matching = {} THEN last.ret = NoZone
    ELSE \E i \in Matching : /\ last.ret = zones[i].id
                             /\ \A j \in Matching : i <= j

\* two zones contain the point and the earlier one was returned
C8_Witness ==
  /\ Resolved
  /\ Cardinality(Matching) >= 2
  /\ last.ret = zones[1].id

(* C9 as stated: a zone with malformed geometry (unparseable, or not one of
   the two shapes, e.g. lacking a field of its declared type) is never
   returned. *)
C9_MalformedNeverReturned ==
  Resolved =>
    \A i \in 1..Len(zones) :
      Malformed(zones[i].polygon_or_center) => last.ret # zones[i].id

(* C9 amended: a zone whose geometry is unparseable, has a type other than
   center and polygon, is a center lacking lat or lng, or a polygon lacking
   coordinates is never returned, and a usable zone containing the point that
   only such zones precede is returned. *)
C9_UnusableSkipped ==
  Resolved =>
    /\ \A i \in 1..Len(zones) :
         Unusable(zones[i].polygon_or_center) => last.ret # zones[i].id
    /\ \A i \in Matching :
         (\A j \in 1..(i - 1) : Unusable(zones[j].polygon_or_center)) => last.ret = zones[i].id

\* an unparseable zone was skipped and the zone after it returned
C9_Witness ==
  /\ Resolved
  /\ Len(zones) >= 2
  /\ ~zones[1].polygon_or_center.valid
  /\ last.ret = zones[2].id

(* C10: a center zone (lat, lng and radius configured) contains a point
   exactly when the point's distance from the center is at most the
   configured radius, also for radius 0. *)
C10_CenterWithinConfiguredRadius ==
  Resolved =>
    \A i \in 1..Len(zones) :
      LET g == zones[i].polygon_or_center
      IN (g.valid /\ typeAt(g.value) = "center" /\ {"lat", "lng", "radius"} \subseteq keysOf(g)) =>
           (isLocationInZone(last.args[1], last.args[2], g) <=>
              (last.args[1] - g.value.lat) * (last.args[1] - g.value.lat)
                + (last.args[2] - g.value.lng) * (last.args[2] - g.value.lng)
                <= g.value.radius * g.value.radius)

---------------------------------------------------------------------------
(* Vocabulary of the polygon property *)

\* the coordinate list of the only zone of the polygon specification
ZonePolygon == zones[1].polygon_or_center.value.coordinates

\* the pairs of neighbouring vertices, the last one joined to the first
EdgesOf(polygon) == {<<i, (i % Len(polygon)) + 1>> : i \in 1..Len(polygon)}

(* The ray from (lat, lng) towards larger lng crosses the edge from a to b:
   the edge's ends lie on different sides of the ray's latitude (an end on
   the ray counts as below it) and the edge meets that latitude at a larger
   lng than the point's.  lo is the end with the smaller lat. *)
RayCrosses(lat, lng, a, b) ==
  LET lo == IF a.lat < b.lat THEN a ELSE b
      hi == IF a.lat < b.lat THEN b ELSE a
  IN /\ lo.lat <= lat
     /\ lat < hi.lat
     /\ (lng - lo.lng) * (hi.lat - lo.lat) < (hi.lng - lo.lng) * (lat - lo.lat)

Crossings(lat, lng, polygon) ==
  Cardinality({e \in EdgesOf(polygon) : RayCrosses(lat, lng, polygon[e[1]], polygon[e[2]])})

Lats(polygon) == {polygon[i].lat : i \in 1..Len(polygon)}
Lngs(polygon) == {polygon[i].lng : i \in 1..Len(polygon)}

\* four corners, two lats and two lngs, neighbours sharing one coordinate
IsAxisAlignedRectangle(polygon) ==
  /\ Len(polygon) = 4
  /\ Cardinality(Lats(polygon)) = 2
  /\ Cardinality(Lngs(polygon)) = 2
  /\ Cardinality({polygon[i] : i \in 1..4}) = 4
  /\ \A e \in EdgesOf(polygon) :
       (polygon[e[1]].lat = polygon[e[2]].lat) # (polygon[e[1]].lng = polygon[e[2]].lng)

StrictlyInsideBounds(lat, lng, polygon) ==
  /\ \E a, b \in Lats(polygon) : a < lat /\ lat < b
  /\ \E a, b \in Lngs(polygon) : a < lng /\ lng < b

StrictlyOutsideBounds(lat, lng, polygon) ==
  \/ \A a \in Lats(polygon) : lat < a
  \/ \A a \in Lats(polygon) : lat > a
  \/ \A a \in Lngs(polygon) : lng < a
  \/ \A a \in Lngs(polygon) : lng > a

\* the lookup returned the polygon zone
Accepted == last.ret = zones[1].id

(* C11: a polygon zone accepts a point exactly when the horizontal ray from
   the point crosses the polygon's boundary an odd number of times; for an
   axis-aligned rectangle, whichever corner its coordinate list starts at,
   every point strictly inside the bounds is accepted and every point
   strictly outside them is rejected. *)
C11_RayCastingParity ==
  Resolved =>
    LET lat == last.args[1]
        lng == last.args[2]
    IN /\ Accepted <=> (Crossings(lat, lng, ZonePolygon) % 2 = 1)
       /\ IsAxisAlignedRectangle(ZonePolygon) =>
            /\ StrictlyInsideBounds(lat, lng, ZonePolygon) => Accepted
            /\ StrictlyOutsideBounds(lat, lng, ZonePolygon) => ~Accepted

\* a rectangle whose list starts at another corner than the tests' accepted
\* a point strictly inside it
C11_Witness ==
  /\ Resolved
  /\ IsAxisAlignedRectangle(ZonePolygon)
  /\ ZonePolygon[1] # Rectangle[1]
  /\ ZonePolygon[1] # NarrowRectangle[1]
  /\ StrictlyInsideBounds(last.args[1], last.args[2], ZonePolygon)
  /\ Accepted

---------------------------------------------------------------------------
(* Vocabulary of the price properties *)

Priced == last.op = "calculatePrice"

PricedOk == Priced /\ last.ret.error = "none"

ServiceIds == {servicesTable[i].id : i \in 1..Len(servicesTable)}

AddonIds == {addonsTable[i].id : i \in 1..Len(addonsTable)}

ServiceById(id) == CHOOSE sv \in {servicesTable[i] : i \in 1..Len(servicesTable)} : sv.id = id

AddonById(id) == CHOOSE a \in {addonsTable[i] : i \in 1..Len(addonsTable)} : a.id = id

ZoneById(id) == CHOOSE z \in {zones[i] : i \in 1..Len(zones)} : z.id = id

\* the requested addon ids that exist, each once
RequestedExisting(input) == {input.addons[k] : k \in 1..Len(input.addons)} \cap AddonIds

\* sums over a set of addon ids, the price in tenths
RECURSIVE PriceOver(_)
PriceOver(ids) ==
  IF ids = {} THEN 0
  ELSE LET a == CHOOSE x \in ids : TRUE
       IN AddonById(a).price * Tenths + PriceOver(ids \ {a})

RECURSIVE MinutesOver(_)
MinutesOver(ids) ==
  IF ids = {} THEN 0
  ELSE LET a == CHOOSE x \in ids : TRUE
       IN AddonById(a).est_minutes + MinutesOver(ids \ {a})

\* the service price the request selects, in tenths
BaseOf(input) ==
  Tenths * (IF input.is_solo THEN ServiceById(input.service_id).base_price_solo
            ELSE ServiceById(input.service_id).base_price_team)

\* the stored rules with the key
RulesWithKey(key) == {pricing_rules[i] : i \in 1..Len(pricing_rules)} \cap
                     {r \in {pricing_rules[i] : i \in 1..Len(pricing_rules)} : r.key = key}

\* the zone of the request has a center
HasCenter(zone) ==
  /\ zone.polygon_or_center.valid
  /\ {"lat", "lng"} \subseteq DOMAIN zone.polygon_or_center.value

\* squared distance in km between a point and the center of a zone
DistSq(point, zone) ==
  LET c == zone.polygon_or_center.value
  IN (point.lat - c.lat) * (point.lat - c.lat) + (point.lng - c.lng) * (point.lng - c.lng)

\* that distance itself; every point of the model is a whole number of km away
KmBetween(point, zone) == CHOOSE k \in 0..100 : k * k = DistSq(point, zone)

Min(a, b) == IF a <= b THEN a ELSE b

(* C12: with an enabled distance_fee rule {max_free_distance_km, fee_per_km,
   max_fee} and a zone that has a center, distance_fee is 0 up to the free
   distance and min(max_fee, (distance - free) * fee_per_km) beyond it, so
   it never exceeds max_fee. *)
C12_DistanceFeeFormula ==
  PricedOk =>
    \A r \in RulesWithKey("distance_fee") :
      (/\ r.enabled
       /\ r.value_json.valid
       /\ {"max_free_distance_km", "fee_per_km", "max_fee"} \subseteq DOMAIN r.value_json.value
       /\ HasCenter(ZoneById(last.args.zone_id)))
      => LET rule == r.value_json.value
             distance == KmBetween(last.args.geo_point, ZoneById(last.args.zone_id))
         IN last.ret.distance_fee =
              IF distance <= rule.max_free_distance_km THEN 0
              ELSE Min(rule.max_fee, (distance - rule.max_free_distance_km) * rule.fee_per_km)

(* C13: calculatePrice fails with the service error when the service id is
   absent (also when the zone id is absent too), with the zone error when
   only the zone id is absent, and returns no price breakdown in either
   case. *)
C13_NotFoundErrors ==
  Priced =>
    /\ last.args.service_id \notin ServiceIds =>
         (last.ret.error = "Service with ID not found" /\ DOMAIN last.ret = {"error"})
    /\ (last.args.service_id \in ServiceIds /\ last.args.zone_id \notin ZoneIds) =>
         (last.ret.error = "Zone with ID not found" /\ DOMAIN last.ret = {"error"})

\* service and zone both absent: the service error
C13_Witness ==
  /\ Priced
  /\ last.args.service_id \notin ServiceIds
  /\ last.args.zone_id \notin ZoneIds
  /\ last.ret.error = "Service with ID not found"

(* C14 as stated: with service and zone present the call succeeds whatever
   addon ids are requested, and the returned addons_total is the sum of the
   prices of the requested addons that exist, estimated_duration the
   service's minutes plus the sum of their minutes. *)
C14_AddonsTotalIsPriceSum ==
  (Priced /\ last.args.service_id \in ServiceIds /\ last.args.zone_id \in ZoneIds) =>
    /\ last.ret.error = "none"
    /\ last.ret.addons_total = PriceOver(RequestedExisting(last.args))
    /\ last.ret.estimated_duration =
         ServiceById(last.args.service_id).est_minutes + MinutesOver(RequestedExisting(last.args))

(* C14 amended: with service and zone present the call succeeds whatever
   addon ids are requested; the returned addons_total is the sum of the
   prices of the requested addons that exist scaled by the factor that
   scales the returned base price (the car-type multiplier), and
   estimated_duration is the service's minutes plus the sum of their
   minutes. *)
C14_MissingAddonsSkipped ==
  (Priced /\ last.args.service_id \in ServiceIds /\ last.args.zone_id \in ZoneIds) =>
    /\ last.ret.error = "none"
    /\ last.ret.addons_total * BaseOf(last.args)
         = last.ret.base_price * PriceOver(RequestedExisting(last.args))
    /\ last.ret.estimated_duration =
         ServiceById(last.args.service_id).est_minutes + MinutesOver(RequestedExisting(last.args))

\* an existing and a missing addon id were requested; one addon was charged
C14_Witness ==
  /\ PricedOk
  /\ last.args.addons = <<2, UnknownAddon>>
  /\ last.args.car_type = "pickup"
  /\ last.ret.base_price > BaseOf(last.args)
  /\ last.ret.addons_total > PriceOver({2})
  /\ last.ret.estimated_duration = 80

\* the rows of pricing_rules without row i
WithoutRule(i) == SelectSeq(pricing_rules, LAMBDA r : r.id # pricing_rules[i].id)

(* C15: a rule that is disabled, or enabled with a payload that does not
   parse, has no effect: the call returns what it returns with the rule
   removed, with distance_fee 0 for such a distance_fee rule and the base
   price unscaled for such a car_type_multipliers rule. *)
C15_DisabledOrUnparseableRuleIsNeutral ==
  Priced =>
    \A i \in 1..Len(pricing_rules) :
      (~pricing_rules[i].enabled \/ ~pricing_rules[i].value_json.valid) =>
        /\ last.ret = calculatePrice(zones, WithoutRule(i), last.args)
        /\ last.ret.error = "none" =>
             /\ pricing_rules[i].key = "distance_fee" => last.ret.distance_fee = 0
             /\ pricing_rules[i].key = "car_type_multipliers" =>
                  last.ret.base_price = BaseOf(last.args)

\* a far point and an suv priced under an unparseable distance_fee rule and
\* a disabled car_type_multipliers rule that holds a multiplier for suv
C15_Witness ==
  /\ PricedOk
  /\ \E r \in RulesWithKey("distance_fee") : r.enabled /\ ~r.value_json.valid
  /\ \E r \in RulesWithKey("car_type_multipliers") : ~r.enabled /\ r.value_json.valid
  /\ last.args.zone_id = 1
  /\ last.args.car_type = "suv"
  /\ DistSq(last.args.geo_point, ZoneById(1)) = 900
  /\ last.ret.distance_fee = 0
  /\ last.ret.base_price = BaseOf(last.args)

\* the multiplier the configuration gives a car type, in tenths: the value of
\* the enabled rule for the car type, 1 without such a value
ConfiguredMultiplier(car_type) ==
  IF \E r \in RulesWithKey("car_type_multipliers") :
       r.enabled /\ r.value_json.valid /\ car_type \in DOMAIN r.value_json.value
  THEN (CHOOSE r \in RulesWithKey("car_type_multipliers") : r.enabled).value_json.value[car_type]
  ELSE Tenths

(* C16: base price and addons total are scaled by the value the enabled
   car_type_multipliers rule holds for the request's car type (by 1 when the
   rule is absent, disabled, unparseable or lacks the car type), and the
   distance fee is the same for every car type. *)
C16_CarTypeMultiplier ==
  PricedOk =>
    /\ last.ret.base_price * Tenths = BaseOf(last.args) * ConfiguredMultiplier(last.args.car_type)
    /\ last.ret.addons_total * Tenths
         = PriceOver(RequestedExisting(last.args)) * ConfiguredMultiplier(last.args.car_type)
    /\ \A c \in CarTypes :
         calculatePrice(zones, pricing_rules, [last.args EXCEPT !.car_type = c]).distance_fee
           = last.ret.distance_fee

(* C17: total_price is the sum of the returned base_price, addons_total and
   distance_fee, where base_price and addons_total are the selected service
   price (solo when is_solo, team otherwise) and the addons' price sum, both
   scaled by the same multiplier: 1 or the value configured for the car
   type. *)
C17_TotalIsSumOfParts ==
  PricedOk =>
    /\ last.ret.total_price = last.ret.base_price + last.ret.addons_total + last.ret.distance_fee
    /\ \E m \in {Tenths, ConfiguredMultiplier(last.args.car_type)} :
         /\ last.ret.base_price * Tenths = BaseOf(last.args) * m
         /\ last.ret.addons_total * Tenths = PriceOver(RequestedExisting(last.args)) * m

\* solo price, two addons, pickup multiplier 1.5 and a fee: 100 * 1.5 +
\* 60 * 1.5 + fee
C17_Witness ==
  /\ PricedOk
  /\ last.args.is_solo
  /\ last.ret.base_price = 1500
  /\ last.ret.addons_total = 900
  /\ last.ret.distance_fee > 0
  /\ last.ret.total_price = 2400 + last.ret.distance_fee

(* C18: under the configurations of the model (all amounts, fee parameters
   and multipliers non-negative) requesting one more existing addon never
   lowers total_price, and a point at least as far from the zone's center
   never has a lower distance_fee. *)
C18_Monotone ==
  PricedOk =>
    /\ \A a \in AddonIds \ RequestedExisting(last.args) :
         calculatePrice(zones, pricing_rules,
                        [last.args EXCEPT !.addons = Append(@, a)]).total_price
           >= last.ret.total_price
    /\ HasCenter(ZoneById(last.args.zone_id)) =>
         \A q \in PricePoints :
           DistSq(q, ZoneById(last.args.zone_id))
             >= DistSq(last.args.geo_point, ZoneById(last.args.zone_id))
           => calculatePrice(zones, pricing_rules,
                             [last.args EXCEPT !.geo_point = q]).distance_fee
                >= last.ret.distance_fee

\* a request charged a fee, that a further addon makes dearer and a farther
\* point charges more
C18_Witness ==
  /\ PricedOk
  /\ last.args.addons = <<1>>
  /\ last.ret.distance_fee > 0
  /\ calculatePrice(zones, pricing_rules, [last.args EXCEPT !.addons = <<1, 2>>]).total_price
       > last.ret.total_price
  /\ \E q \in PricePoints :
       calculatePrice(zones, pricing_rules, [last.args EXCEPT !.geo_point = q]).distance_fee
         > last.ret.distance_fee

\* a list of ids without its repetitions, first occurrences kept
RECURSIVE WithoutRepeats(_)
WithoutRepeats(ids) ==
  IF ids = <<>> THEN <<>>
  ELSE LET front == WithoutRepeats(SubSeq(ids, 1, Len(ids) - 1))
           x == ids[Len(ids)]
       IN IF \E k \in 1..Len(front) : front[k] = x THEN front ELSE Append(front, x)

(* C19: an addon id repeated in the request is counted once, the result is
   that of the request without the repetition, and total_price is never
   negative. *)
C19_NoDoubleCountNonNegative ==
  PricedOk =>
    /\ last.ret = calculatePrice(zones, pricing_rules,
                                 [last.args EXCEPT !.addons = WithoutRepeats(@)])
    /\ last.ret.estimated_duration
         <= ServiceById(last.args.service_id).est_minutes + MinutesOver(AddonIds)
    /\ last.ret.total_price >= 0

\* addon 1 requested twice and charged once
C19_Witness ==
  /\ PricedOk
  /\ last.args.addons = <<1, 1>>
  /\ last.ret.addons_total > 0
  /\ last.ret.addons_total * BaseOf(last.args) = last.ret.base_price * PriceOver({1})
  /\ last.ret.estimated_duration = 75

---------------------------------------------------------------------------
(* C20: getAvailableTimeSlots keeps no state of its own: as long as no record
   has changed since a call, the same call returns the same slots with the
   same start, end and availability, and the call itself changes no stored
   booking, customer, zone or pricing rule. *)
C20_IdempotentRead ==
  /\ [](last.op = "getAvailableTimeSlots" =>
          last.ret = getAvailableTimeSlots(zones, bookings,
                                           last.args[1], last.args[2], last.args[3]))
  /\ [][last'.op = "getAvailableTimeSlots" =>
          UNCHANGED <<zones, pricing_rules, bookings, customers>>]_vars

\* a call answered with a full slot and free slots, three bookings stored
C20_Witness ==
  /\ SlotsReturned
  /\ Len(bookings) = 3
  /\ \E i \in 1..Len(last.ret.slots) : ~last.ret.slots[i].available
  /\ \E i \in 1..Len(last.ret.slots) : last.ret.slots[i].available

---------------------------------------------------------------------------
(* Vocabulary of the distance fee property *)

\* the coordinates a zone's text gives for its center, nested or not
CenterOf(z) ==
  LET g == z.polygon_or_center.value
  IN IF ~z.polygon_or_center.valid THEN <<>>
     ELSE IF "center" \in DOMAIN g THEN <<g.center.lat, g.center.lng>>
     ELSE IF "lat" \in DOMAIN g /\ "lng" \in DOMAIN g THEN <<g.lat, g.lng>>
     ELSE <<>>

\* whole km between a point and a center <<lat, lng>>
KmApart(p, c) ==
  CHOOSE k \in 0..100 : k * k = (p.lat - c[1]) * (p.lat - c[1]) + (p.lng - c[2]) * (p.lng - c[2])

\* the payloads of the distance_fee rule that is enabled and well formed
WellFormedFeeRules ==
  {pricing_rules[i].value_json.value :
     i \in {k \in 1..Len(pricing_rules) :
              /\ pricing_rules[k].key = "distance_fee"
              /\ pricing_rules[k].enabled
              /\ pricing_rules[k].value_json.valid
              /\ {"max_free_distance_km", "fee_per_km", "max_fee"}
                   \subseteq DOMAIN pricing_rules[k].value_json.value}}

\* C21: calculateDistanceFee never returns more than the enabled rule's
\* max_fee.  For every existing zone and every point: with the rule absent
\* or disabled the fee is 0; with an enabled well formed rule it is at most
\* max_fee, 0 within max_free_distance_km of the zone's center and
\* min((distance - max_free_distance_km) * fee_per_km, max_fee) beyond.
C21_DistanceFeeCapped ==
  (last.op = "calculateDistanceFee" /\ last.args.zone_id \in ZoneIds) =>
    LET z == ZoneById(last.args.zone_id)
        c == CenterOf(z)
        p == last.args.geo_point
    IN /\ (\A i \in 1..Len(pricing_rules) :
             pricing_rules[i].key = "distance_fee" => ~pricing_rules[i].enabled)
          => last.ret = 0
       /\ \A r \in WellFormedFeeRules :
            /\ last.ret <= r.max_fee
            /\ c # <<>> =>
                 LET d == KmApart(p, c)
                 IN last.ret = IF d <= r.max_free_distance_km THEN 0
                               ELSE Min((d - r.max_free_distance_km) * r.fee_per_km, r.max_fee)

\* C22: createBooking finds or creates the customer by phone, and
\* createCustomer does the same, hence after any interleaving of
\* createBooking and createCustomer calls there is at most one customer row
\* per phone number.
C22_OneCustomerPerPhone ==
  \A i, j \in 1..Len(customers) : customers[i].phone = customers[j].phone => i = j

---------------------------------------------------------------------------
(* Vocabulary of the booking properties *)

\* the request names a service, a zone or an addon that is in no table
NamesMissingRow(input) ==
  \/ input.service_id \notin ServiceIds
  \/ input.zone_id \notin ZoneIds
  \/ \E k \in 1..Len(input.addons) : input.addons[k] \notin AddonIds

\* the errors that fit what the request is missing
ErrorsFitting(input) ==
  (IF input.service_id \notin ServiceIds THEN {"Service not found"} ELSE {})
  \cup (IF input.zone_id \notin ZoneIds THEN {"Zone not found"} ELSE {})
  \cup (IF \E k \in 1..Len(input.addons) : input.addons[k] \notin AddonIds
        THEN {"One or more addons not found"} ELSE {})

\* C23: createBooking rejects a request whose service id, zone id or any
\* addon id does not exist, with the matching error, and inserts no booking
\* row; otherwise it inserts exactly one booking with status 'confirmed'
\* that carries the request's zone, window, addons, car type and is_solo.
C23_RejectsMissingElseInsertsOne ==
  [][last'.op = "createBooking" =>
       LET input == last'.args
       IN IF NamesMissingRow(input)
          THEN /\ last'.ret.error \in ErrorsFitting(input)
               /\ bookings' = bookings
          ELSE /\ last'.ret.error = "none"
               /\ Len(bookings') = Len(bookings) + 1
               /\ SubSeq(bookings', 1, Len(bookings)) = bookings
               /\ LET b == bookings'[Len(bookings')]
                  IN /\ b.status = "confirmed"
                     /\ b.zone_id = input.zone_id
                     /\ b.scheduled_window_start = input.scheduled_window.start
                     /\ b.scheduled_window_end = input.scheduled_window.end
                     /\ b.addons = input.addons
                     /\ b.car_type = input.car_type
                     /\ b.is_solo = input.is_solo]_vars

\* C28: a createBooking call that fails leaves the whole store unchanged: no
\* booking row and no customer row is added, also when the request's phone
\* belongs to no existing customer.
C28_FailedBookingWritesNothing ==
  [][(last'.op = "createBooking" /\ last'.ret.error # "none")
       => UNCHANGED <<zones, pricing_rules, bookings, customers>>]_vars

\* the calculatePrice input made of the fields of a booking request
PriceInputOf(input) ==
  [service_id |-> input.service_id, addons |-> input.addons, car_type |-> input.car_type,
   zone_id |-> input.zone_id, geo_point |-> input.geo_point, is_solo |-> input.is_solo]

\* C29: the price a booking is stored with is the price calculatePrice
\* quotes for the same request: price_total equals total_price and
\* distance_fee equals distance_fee, under every pricing rule configuration.
C29_StoredPriceIsQuotedPrice ==
  (last.op = "createBooking" /\ last.ret.error = "none") =>
    LET quote == calculatePrice(zones, pricing_rules, PriceInputOf(last.args))
        b == bookings[Len(bookings)]
    IN /\ quote.error = "none"
       /\ last.ret.price_total * Tenths = quote.total_price
       /\ b.price_total * Tenths = quote.total_price
       /\ b.distance_fee * Tenths = quote.distance_fee

\* C24: validateTimeSlot returns true only for windows that lie entirely
\* inside the operating hours of a single day: the window starts at or after
\* 08:00, ends at or before 18:00, and ends on the day it starts.
C24_ValidWindowInsideOneDay ==
  (last.op = "validateTimeSlot" /\ last.ret = TRUE) =>
    LET start_time == last.args[2]
        end_time == last.args[3]
    IN /\ start_time \div MinutesPerDay = end_time \div MinutesPerDay
       /\ start_time % MinutesPerDay >= 8 * 60
       /\ end_time % MinutesPerDay <= 18 * 60

\* C25: updateBooking changes exactly the fields supplied in the request on
\* the booking with the given id and leaves every other field, every other
\* booking and every other table unchanged; a request with no update field
\* changes nothing; an unknown id is answered with 'Booking not found' and
\* changes nothing.
C25_UpdateFrame ==
  [][last'.op = "updateBooking" =>
       LET input == last'.args
           supplied == (DOMAIN input) \ {"id"}
       IN /\ UNCHANGED <<zones, pricing_rules, customers>>
          /\ Len(bookings') = Len(bookings)
          /\ supplied = {} => bookings' = bookings
          /\ IF \A i \in 1..Len(bookings) : bookings[i].id # input.id
             THEN /\ last'.ret.error = "Booking not found"
                  /\ bookings' = bookings
             ELSE /\ last'.ret.error = "none"
                  /\ \A i \in 1..Len(bookings) :
                       IF bookings[i].id = input.id
                       THEN /\ DOMAIN bookings'[i] = DOMAIN bookings[i]
                            /\ \A f \in DOMAIN bookings[i] :
                                 bookings'[i][f] = IF f \in supplied THEN input[f]
                                                   ELSE bookings[i][f]
                       ELSE bookings'[i] = bookings[i]]_vars

\* an update that supplied the window only: the booking canceled before it
\* is still canceled, at its old address, in the new window
C25_Witness ==
  /\ last.op = "updateBooking"
  /\ DOMAIN last.args = {"id", "scheduled_window_start", "scheduled_window_end"}
  /\ last.ret.error = "none"
  /\ bookings[1].status = "canceled"
  /\ bookings[1].address_text = "Test Address"
  /\ bookings[1].scheduled_window_start = At(2, 10, 0)
  /\ bookings[2] = SeedBookings[2]

\* the caller has booked the window it checked, and no other booking of the
\* zone in that window was written since its check
BookedRightAfterCheck(c) ==
  /\ callers[c].pc = "booked"
  /\ callers[c].ok
  /\ Cardinality(ConfirmedOverlapping(callers[c].zone_id, callers[c].start, callers[c].end))
       = callers[c].seen + 1

\* C26: a sequential check-then-book is safe: when validateTimeSlot has
\* returned true and createBooking then inserts a confirmed booking for the
\* same zone and window with no other write in between, at most C confirmed
\* bookings of the zone overlap [start, end) afterwards (half-open test).
C26_CheckThenBookWithinCapacity ==
  \A c \in Callers :
    BookedRightAfterCheck(c) =>
      Cardinality(ConfirmedOverlapping(callers[c].zone_id, callers[c].start, callers[c].end))
        <= DEFAULT_TEAM_CAPACITY

\* the booking that fills the window: C - 1 seen, C afterwards
C26_Witness ==
  \E c \in Callers :
    /\ BookedRightAfterCheck(c)
    /\ callers[c].seen = DEFAULT_TEAM_CAPACITY - 1
    /\ Cardinality(ConfirmedOverlapping(callers[c].zone_id, callers[c].start, callers[c].end))
         = DEFAULT_TEAM_CAPACITY

\* C27: after any sequence of createBooking and updateBooking calls, the
\* confirmed bookings of a zone that overlap a generated slot window are
\* never more than C = 3: the writers refuse what would exceed the capacity.
C27_WritersKeepCapacity ==
  \A z \in ZoneIds, date \in Dates :
    \A w \in GeneratedWindows(date) :
      Cardinality(ConfirmedOverlapping(z, w.start, w.end)) <= 3

\* the slots getAvailableTimeSlots returns for a query on a bookings table
SlotsFor(bk, q) == getAvailableTimeSlots(zones, bk, q[1], q[2], q[3]).slots

\* the two lists hold the same windows in the same order
SameInstants(before, after) ==
  /\ Len(before) = Len(after)
  /\ \A i \in 1..Len(before) :
       before[i].start = after[i].start /\ before[i].end = after[i].end

\* the step is an updateBooking whose only effect is to take a confirmed
\* booking to another status
Unconfirms ==
  /\ last'.op = "updateBooking"
  /\ DOMAIN last'.args = {"id", "status"}
  /\ last'.args.status # "confirmed"
  /\ \E i \in 1..Len(bookings) :
       bookings[i].id = last'.args.id /\ bookings[i].status = "confirmed"

\* C30: availability is antitone in the set of confirmed bookings.  For
\* every zone, duration and day, the slots returned before and after a write
\* hold the same instants; createBooking never turns an unavailable slot
\* available, and an updateBooking that only takes a booking from confirmed
\* to another status never turns an available slot unavailable.
C30_AvailabilityAntitone ==
  [][\A q \in SlotQueries :
       LET before == SlotsFor(bookings, q)
           after == SlotsFor(bookings', q)
       IN /\ last'.op = "createBooking" =>
               /\ SameInstants(before, after)
               /\ \A i \in 1..Len(before) : after[i].available => before[i].available
          /\ Unconfirms =>
               /\ SameInstants(before, after)
               /\ \A i \in 1..Len(before) : before[i].available => after[i].available]_vars

\* a fourth confirmed booking in a window that was already full, and later
\* the cancellation that reopens a window: three confirmed ones are left
C30_Witness ==
  /\ last.op = "updateBooking"
  /\ last.ret.error = "none"
  /\ last.args = [id |-> 1, status |-> "canceled"]
  /\ Len(bookings) = 4
  /\ \A i \in 1..Len(bookings) :
       bookings[i].zone_id = 1 /\ bookings[i].scheduled_window_start = Wa.start
  /\ Cardinality(ConfirmedOverlapping(1, Wa.start, Wa.end)) = 3

====
